---------------------------- MODULE Spec2Model ----------------------------
(***************************************************************************)
(* Broker presence registry and notification dispatch of the real-estate   *)
(* backend (src/server.js, second iteration of the server, lines 448-949). *)
(*                                                                         *)
(* Request strings are tuples: those whose shape the code inspects        *)
(* (recipient, e-mail, dateTime text, stringified ids) are tuples of       *)
(* one-character strings, so that String.includes, Date parsing and        *)
(* toString are computed; the enumerated fields (type, channel) are        *)
(* one-word tuples.  The empty tuple is the missing (falsy) value.         *)
(*                                                                         *)
(* Every await of a handler is a point where other handlers run, so the    *)
(* POST handler is cut at its awaits: PostNotification (up to save),       *)
(* NotifSave, BrokerFind, then Fanout or SendPersonal.  The socket         *)
(* handlers and the single-query handlers are one step each.               *)
(*                                                                         *)
(* Of a broker only the e-mail and isSubscribed are kept: no notification  *)
(* path reads the other fields.  io.to(sid).emit is fire-and-forget: it    *)
(* returns nothing and a packet written to a connection that is going away *)
(* is dropped by the transport without an exception; the field delivered   *)
(* of a push records which of the two happened.                            *)
(* socketsAtSave and the field before of lastPatch are history: they keep  *)
(* what a handler found, for the properties that compare it with what the  *)
(* handler did later; no handler reads them.                               *)
(*                                                                         *)
(* Four specifications share the actions.  Spec has the sockets, the       *)
(* broker store, the POST handler and the inbox query; SpecPresence has    *)
(* the two socket handlers, the only writers of onlineBrokers; SpecInbox   *)
(* has the writers and readers of the notification collection with more    *)
(* requests and delivery times, and no socket; SpecStore has every handler *)
(* at once, with one socket and one POST request.                          *)
(***************************************************************************)
EXTENDS Integers, Sequences, FiniteSets

(* ------------------------------ bounds --------------------------------- *)
MaxSockets      == 3     \* sockets that ever connect
MaxReqs         == 2     \* POST /api/notifications requests ever issued
MaxTime         == 2     \* distinct valid delivery times 1..MaxTime
DispatchSockets == 2     \* sockets that connect in Spec
DispatchReqs    == 1     \* POST requests issued in Spec
StoreSockets    == 1     \* sockets that connect in SpecStore

Sockets == 1..MaxSockets
Reqs    == 1..MaxReqs

(* ------------------------------ strings -------------------------------- *)
Empty  == <<>>                       \* "" / undefined: falsy in JS
Null   == <<>>                       \* null stored in brokerEmail
EmailA == <<"a", "@", "x">>
EmailB == <<"b", "@", "x">>
AllBrokers        == <<"A","l","l"," ","B","r","o","k","e","r","s">>
AllPremiumBrokers == <<"A","l","l"," ","P","r","e","m","i","u","m"," ","B","r","o","k","e","r","s">>
Team   == <<"T", "e", "a", "m">>     \* neither a sentinel nor an e-mail

Identities == {EmailA, EmailB}
Recipients == Identities \cup {AllBrokers, AllPremiumBrokers, Team, Empty}

DigitChar == <<"1", "2", "3", "4", "5", "6", "7", "8", "9">>
DateTexts == {<<DigitChar[t]>> : t \in 1..MaxTime} \cup {<<"x">>, Empty}
Types     == {<<"Manual">>, <<"Bogus">>, Empty}
Channels  == {<<"System">>, <<"Fax">>, Empty}
Messages  == {<<"h", "i">>, Empty}

NaN   == 0                           \* Invalid Date
NoSid == 0                           \* Map.get of an absent key

(* String.prototype.includes for a one-character needle *)
Includes(s, c) == \E i \in 1..Len(s) : s[i] = c

(* !x on a string *)
Falsy(x) == x = Empty

(* new Date(text): the time point named by the text, or Invalid Date *)
ParseDate(text) ==
  IF Len(text) = 1 /\ \E t \in 1..Len(DigitChar) : DigitChar[t] = text[1]
  THEN CHOOSE t \in 1..Len(DigitChar) : DigitChar[t] = text[1]
  ELSE NaN

(* the validity of the parsed date never tested *)
IsNaNNever(d) == FALSE

IsNaN(d) == d = NaN

(* Date.prototype.toISOString *)
ToISOString(d) == <<DigitChar[d]>>

(* ObjectId.prototype.toString *)
IdToString(id) == <<"i", DigitChar[id]>>

(* notificationSchema: enum and required validators run by save() *)
TypeEnum    == {<<"Manual">>, <<"Automated">>}
ChannelEnum == {<<"System">>, <<"Email">>}
SchemaValid(doc) ==
  /\ ~Falsy(doc.recipient)
  /\ doc.type \in TypeEnum
  /\ doc.channel \in ChannelEnum
  /\ ~Falsy(doc.message)
  /\ ~IsNaN(doc.dateTime)

(* ------------------------------- state --------------------------------- *)
VARIABLES
  sockState,      \* socket -> "new" | "open" | "closed"
  sockEmail,      \* socket -> socket.handshake.query.email (Empty if none)
  onlineBrokers,  \* the Map email -> socket.id
  brokers,        \* Broker collection, in insertion order
  notifications,  \* Notification collection, in insertion order
  pc,             \* request -> position of its POST handler
  body,           \* request -> req.body
  found,          \* request -> e-mails returned by Broker.find
  response,       \* request -> HTTP response of the POST
  pushes,         \* the io.to(sid).emit('new_notification', ...) made so far
  socketsAtSave,  \* history: request -> sockState as it was when the
                  \* save() of the request resolved
  lastFetch,      \* response of the latest GET /api/notifications/:email
  lastPatch       \* response of the latest PATCH /api/notifications/:id, and
                  \* (before) whether the document it named was already read

vars == <<sockState, sockEmail, onlineBrokers, brokers, notifications, pc,
          body, found, response, pushes, socketsAtSave, lastFetch, lastPatch>>

sockVars  == <<sockState, sockEmail, onlineBrokers>>
reqVars   == <<pc, body, found, response, socketsAtSave>>
fetchVars == <<lastFetch, lastPatch>>

NoBody == [recipient |-> Empty, type |-> Empty, channel |-> Empty, message |-> Empty,
           dateTime |-> Empty]
NoResp == [status |-> 0, message |-> "", details |-> "", data |-> <<>>]

Init ==
  /\ sockState = [s \in Sockets |-> "new"]
  /\ sockEmail = [s \in Sockets |-> Empty]
  /\ onlineBrokers = <<>>
  /\ brokers = <<>>
  /\ notifications = <<>>
  /\ pc = [r \in Reqs |-> "idle"]
  /\ body = [r \in Reqs |-> NoBody]
  /\ found = [r \in Reqs |-> <<>>]
  /\ response = [r \in Reqs |-> NoResp]
  /\ pushes = {}
  /\ socketsAtSave = [r \in Reqs |-> [s \in Sockets |-> "new"]]
  /\ lastFetch = [email |-> Empty, status |-> 0, data |-> <<>>]
  /\ lastPatch = [id |-> Empty, status |-> 0, details |-> "", data |-> <<>>,
                  before |-> FALSE]

(* --------------------------- presence registry ------------------------- *)
(* the entry never written *)
MapSetNowhere(m, email, sid) == m

(* an entry already present is kept *)
MapSetKeepFirst(m, email, sid) ==
  [e \in (DOMAIN m) \cup {email} |-> IF e \in DOMAIN m THEN m[e] ELSE sid]

(* onlineBrokers.set(email, socket.id) *)
MapSet(m, email, sid) ==
  [e \in (DOMAIN m) \cup {email} |-> IF e = email THEN sid ELSE m[e]]

(* the disconnect handler leaves the entry in place *)
MapDeleteNothing(m, email, sid) == m

(* onlineBrokers.delete(email), as the disconnect handler calls it *)
MapDelete(m, email, sid) ==
  [e \in (DOMAIN m) \ {email} |-> m[e]]

(* onlineBrokers.get(email) *)
MapGet(m, email) == IF email \in DOMAIN m THEN m[email] ELSE NoSid

(* io.on('connection'): sockets connect in id order *)
Connect(s, email) ==
  /\ sockState[s] = "new"
  /\ \A t \in Sockets : t < s => sockState[t] # "new"
  /\ sockState' = [sockState EXCEPT ![s] = "open"]
  /\ sockEmail' = [sockEmail EXCEPT ![s] = email]
  /\ onlineBrokers' = IF ~Falsy(email) THEN MapSet(onlineBrokers, email, s)
                      ELSE onlineBrokers
  /\ UNCHANGED <<brokers, notifications, reqVars, pushes, fetchVars>>

(* socket.on('disconnect') *)
Disconnect(s) ==
  /\ sockState[s] = "open"
  /\ sockState' = [sockState EXCEPT ![s] = "closed"]
  /\ onlineBrokers' = MapDelete(onlineBrokers, sockEmail[s], s)
  /\ UNCHANGED <<sockEmail, brokers, notifications, reqVars, pushes, fetchVars>>

(* ------------------------------ broker store --------------------------- *)
BrokerEmails == {brokers[i].email : i \in 1..Len(brokers)}

(* POST /api/broker/register: new brokers start unsubscribed *)
BrokerRegister(email) ==
  /\ email \notin BrokerEmails
  /\ brokers' = Append(brokers, [email |-> email, isSubscribed |-> FALSE])
  /\ UNCHANGED <<sockVars, notifications, reqVars, pushes, fetchVars>>

(* POST /api/broker/subscribe *)
BrokerSubscribe(email) ==
  /\ \E i \in 1..Len(brokers) :
       /\ brokers[i].email = email
       /\ ~brokers[i].isSubscribed
       /\ brokers' = [brokers EXCEPT ![i].isSubscribed = TRUE]
  /\ UNCHANGED <<sockVars, notifications, reqVars, pushes, fetchVars>>


(* --------------------------- notification store ------------------------ *)
NotifIds == {notifications[i]._id : i \in 1..Len(notifications)}

NotifById(id) == CHOOSE n \in {notifications[i] : i \in 1..Len(notifications)} : n._id = id

(* the personal field never set *)
PersonalFieldNone(recipient) == Null

(* the recipient copied into the personal field whatever it is *)
PersonalFieldAlways(recipient) == recipient

(* brokerEmail: recipient.includes('@') ? recipient : null *)
PersonalField(recipient) == IF Includes(recipient, "@") THEN recipient ELSE Null

(* new Notification({...}) with the schema default read: false; the driver *)
(* gives every new document a fresh _id, here the number of its request    *)
NewNotification(b, id) ==
  [_id |-> id, recipient |-> b.recipient, type |-> b.type, channel |-> b.channel,
   message |-> b.message, dateTime |-> ParseDate(b.dateTime), read |-> FALSE,
   brokerEmail |-> PersonalField(b.recipient)]

(* one copy of the document written for each broker of the collection *)
PersistPerBroker(store, doc) ==
  store \o [i \in 1..Len(brokers) |-> doc]

(* save() that resolves without having written the document *)
PersistDropped(store, doc) == store

(* the document collection after notif.save() resolves *)
Persist(store, doc) == Append(store, doc)

(* notif.toObject() with _id and dateTime turned into text *)
NotifObj(n) == [n EXCEPT !._id = IdToString(n._id), !.dateTime = ToISOString(n.dateTime)]

(* recipient left out of the presence check *)
MissingFieldsButRecipient(b) ==
  Falsy(b.type) \/ Falsy(b.channel) \/ Falsy(b.message) \/ Falsy(b.dateTime)

(* the first if of the POST handler *)
MissingFields(b) ==
  Falsy(b.recipient) \/ Falsy(b.type) \/ Falsy(b.channel) \/ Falsy(b.message)
    \/ Falsy(b.dateTime)

IsBroadcast(recipient) == recipient = AllBrokers \/ recipient = AllPremiumBrokers

(* the subscription filter applied to every broadcast *)
FindBrokersSubscribed(recipient) ==
  LET F[i \in 0..Len(brokers)] ==
        IF i = 0 THEN <<>>
        ELSE IF brokers[i].isSubscribed THEN Append(F[i - 1], brokers[i].email)
             ELSE F[i - 1]
  IN F[Len(brokers)]

(* the subscription filter left out of the query *)
FindBrokersAll(recipient) == [i \in 1..Len(brokers) |-> brokers[i].email]

(* Broker.find(...).select('email'), in the collection's order *)
FindBrokers(recipient) ==
  LET hit(b) == recipient = AllPremiumBrokers => b.isSubscribed
      F[i \in 0..Len(brokers)] ==
        IF i = 0 THEN <<>>
        ELSE IF hit(brokers[i]) THEN Append(F[i - 1], brokers[i].email) ELSE F[i - 1]
  IN F[Len(brokers)]

(* the e-mails of a list whose onlineBrokers entry is truthy, in order *)
OnlineOf(emails) ==
  LET F[i \in 0..Len(emails)] ==
        IF i = 0 THEN <<>>
        ELSE IF MapGet(onlineBrokers, emails[i]) # NoSid
             THEN Append(F[i - 1], emails[i]) ELSE F[i - 1]
  IN F[Len(emails)]

(* the in-memory document notif of request r *)
Doc(r) == NewNotification(body[r], r)

(* every emit made a second time *)
EmitTwice(r, targets, sent) ==
  pushes \cup {[req |-> r, k |-> i + n * Len(targets), nid |-> NewNotification(body[r], r)._id,
                 to |-> targets[i], sid |-> MapGet(onlineBrokers, targets[i]),
                 delivered |-> sent[i]] : i \in 1..Len(targets), n \in {0, 1}}

(* io.emit instead of io.to(sid).emit: every registered connection gets it *)
EmitToEveryone(r, targets, sent) ==
  pushes \cup {[req |-> r, k |-> i, nid |-> NewNotification(body[r], r)._id,
                 to |-> targets[i], sid |-> onlineBrokers[e], delivered |-> sent[i]] :
                i \in 1..Len(targets), e \in DOMAIN onlineBrokers}

(* io.to(sid).emit('new_notification', notifObj) for each e-mail of targets; *)
(* sent[i] tells whether the packet reached the client before its          *)
(* connection went away: emit itself reports nothing to the caller.        *)
Emit(r, targets, sent) ==
  pushes \cup {[req |-> r, k |-> i, nid |-> Doc(r)._id, to |-> targets[i],
                 sid |-> MapGet(onlineBrokers, targets[i]), delivered |-> sent[i]] :
                i \in 1..Len(targets)}

Created(r) ==
  [status |-> 201, message |-> "Notification created", details |-> "",
   data |-> <<NotifObj(Doc(r))>>]

(* a lost push reported to the submitter *)
AfterEmitSurfacing(r, sent) ==
  IF \E i \in DOMAIN sent : ~sent[i]
  THEN [status |-> 500, message |-> "Server error", details |-> "emit failed", data |-> <<>>]
  ELSE Created(r)

(* res.status(201).json(...) follows the emits whatever became of them *)
AfterEmit(r, sent) == Created(r)

ServerError(details) ==
  [status |-> 500, message |-> "Server error", details |-> details, data |-> <<>>]

BadRequest(message) ==
  [status |-> 400, message |-> message, details |-> "", data |-> <<>>]

(* POST /api/notifications up to the call of notif.save() *)
PostNotification(r, b) ==
  /\ pc[r] = "idle"
  /\ \A q \in Reqs : q < r => pc[q] # "idle"
  /\ body' = [body EXCEPT ![r] = b]
  /\ IF MissingFields(b)
     THEN /\ response' = [response EXCEPT ![r] = BadRequest("Missing fields")]
          /\ pc' = [pc EXCEPT ![r] = "done"]
     ELSE IF IsNaN(ParseDate(b.dateTime))
     THEN /\ response' = [response EXCEPT ![r] = BadRequest("Invalid dateTime")]
          /\ pc' = [pc EXCEPT ![r] = "done"]
     ELSE /\ response' = response
          /\ pc' = [pc EXCEPT ![r] = "save"]
  /\ UNCHANGED <<sockVars, brokers, notifications, found, pushes, socketsAtSave, fetchVars>>

(* await notif.save(): schema validation, then the insert *)
NotifSave(r) ==
  /\ pc[r] = "save"
  /\ IF ~SchemaValid(Doc(r))
     THEN /\ response' = [response EXCEPT ![r] = ServerError("Notification validation failed")]
          /\ pc' = [pc EXCEPT ![r] = "done"]
          /\ UNCHANGED <<notifications, socketsAtSave>>
     ELSE /\ notifications' = Persist(notifications, Doc(r))
          /\ socketsAtSave' = [socketsAtSave EXCEPT ![r] = sockState]
          /\ pc' = [pc EXCEPT ![r] = "saved"]
          /\ response' = response
  /\ UNCHANGED <<sockVars, brokers, body, found, pushes, fetchVars>>

(* await notif.save() rejects: validation passed, the insert failed *)
NotifSaveFail(r) ==
  /\ pc[r] = "save"
  /\ SchemaValid(Doc(r))
  /\ response' = [response EXCEPT ![r] = ServerError("save failed")]
  /\ pc' = [pc EXCEPT ![r] = "done"]
  /\ UNCHANGED <<sockVars, brokers, notifications, body, found, pushes, socketsAtSave, fetchVars>>

(* an update issued on the broker collection where the query should be *)
BrokerFindUpdating(r) ==
  /\ pc[r] = "saved"
  /\ IsBroadcast(body[r].recipient)
  /\ found' = [found EXCEPT ![r] = FindBrokers(body[r].recipient)]
  /\ brokers' = [i \in 1..Len(brokers) |-> [brokers[i] EXCEPT !.isSubscribed = FALSE]]
  /\ pc' = [pc EXCEPT ![r] = "fanout"]
  /\ UNCHANGED <<sockVars, notifications, body, response, pushes, socketsAtSave, fetchVars>>

(* after save, recipient is a sentinel: await Broker.find(...) is answered *)
BrokerFind(r) ==
  /\ pc[r] = "saved"
  /\ IsBroadcast(body[r].recipient)
  /\ found' = [found EXCEPT ![r] = FindBrokers(body[r].recipient)]
  /\ pc' = [pc EXCEPT ![r] = "fanout"]
  /\ UNCHANGED <<sockVars, brokers, notifications, body, response, pushes, socketsAtSave, fetchVars>>

(* await Broker.find(...) rejects *)
BrokerFindFail(r) ==
  /\ pc[r] = "saved"
  /\ IsBroadcast(body[r].recipient)
  /\ response' = [response EXCEPT ![r] = ServerError("find failed")]
  /\ pc' = [pc EXCEPT ![r] = "done"]
  /\ UNCHANGED <<sockVars, brokers, notifications, body, found, pushes, socketsAtSave, fetchVars>>

(* the entry of a connection that lost its packet dropped by the fan-out *)
FanoutPruning(r) ==
  /\ pc[r] = "fanout"
  /\ LET targets == OnlineOf(found[r]) IN
     \E sent \in [1..Len(targets) -> BOOLEAN] :
       /\ pushes' = Emit(r, targets, sent)
       /\ response' = [response EXCEPT ![r] = AfterEmit(r, sent)]
       /\ onlineBrokers' = [e \in DOMAIN onlineBrokers \ {targets[i] : i \in {j \in 1..Len(targets) : ~sent[j]}}
                              |-> onlineBrokers[e]]
  /\ pc' = [pc EXCEPT ![r] = "done"]
  /\ UNCHANGED <<sockState, sockEmail, brokers, notifications, body, found, socketsAtSave, fetchVars>>

(* brokers.forEach(...) and the 201 response *)
Fanout(r) ==
  /\ pc[r] = "fanout"
  /\ LET targets == OnlineOf(found[r]) IN
     \E sent \in [1..Len(targets) -> BOOLEAN] :
       /\ pushes' = Emit(r, targets, sent)
       /\ response' = [response EXCEPT ![r] = AfterEmit(r, sent)]
  /\ pc' = [pc EXCEPT ![r] = "done"]
  /\ UNCHANGED <<sockVars, brokers, notifications, body, found, socketsAtSave, fetchVars>>

(* after save, recipient is no sentinel: the else-if branch and the 201 *)
SendPersonal(r) ==
  /\ pc[r] = "saved"
  /\ ~IsBroadcast(body[r].recipient)
  /\ LET targets == IF Includes(body[r].recipient, "@")
                    THEN OnlineOf(<<body[r].recipient>>) ELSE <<>> IN
     \E sent \in [1..Len(targets) -> BOOLEAN] :
       /\ pushes' = Emit(r, targets, sent)
       /\ response' = [response EXCEPT ![r] = AfterEmit(r, sent)]
  /\ pc' = [pc EXCEPT ![r] = "done"]
  /\ UNCHANGED <<sockVars, brokers, notifications, body, found, socketsAtSave, fetchVars>>

(* ------------------------------- inbox --------------------------------- *)
(* only 'All Brokers' counted as a broadcast *)
InboxFilterNoPremium(n, email) == n.brokerEmail = email \/ n.recipient = AllBrokers

(* broadcasts left out of the inbox *)
InboxFilterPersonalOnly(n, email) == n.brokerEmail = email

(* no filter at all *)
InboxFilterAll(n, email) == TRUE

(* records without a personal field matched for every caller *)
InboxFilterNullPersonal(n, email) ==
  n.brokerEmail \in {email, Null} \/ n.recipient \in {AllBrokers, AllPremiumBrokers}

(* the $or filter of GET /api/notifications/:email *)
InboxFilter(n, email) ==
  n.brokerEmail = email \/ n.recipient \in {AllBrokers, AllPremiumBrokers}

(* sorted with dateTime: 1 *)
SortOrderAscending(a, b) == a.dateTime <= b.dateTime

(* .sort({ dateTime: -1 }): a may come before b *)
SortOrder(a, b) == a.dateTime >= b.dateTime

(* every answer the query may give: the matching documents, sorted *)
InboxResults(email) ==
  LET M == {i \in 1..Len(notifications) : InboxFilter(notifications[i], email)}
      k == Cardinality(M)
      orders == {f \in [1..k -> M] :
                   /\ \A i, j \in 1..k : i # j => f[i] # f[j]
                   /\ \A i \in 1..k : i < k =>
                        SortOrder(notifications[f[i]], notifications[f[i + 1]])}
  IN {[i \in 1..k |-> notifications[f[i]]] : f \in orders}

(* notifications.map(n => ({...n, _id: ..., dateTime: ...})) *)
Cleaned(list) == [i \in 1..Len(list) |-> NotifObj(list[i])]

(* GET /api/notifications/:email *)
GetNotifications(email) ==
  /\ \E res \in InboxResults(email) :
       lastFetch' = [email |-> email, status |-> 200, data |-> Cleaned(res)]
  /\ UNCHANGED <<sockVars, brokers, notifications, reqVars, pushes, lastPatch>>

(* the find of GET /api/notifications/:email rejects *)
GetNotificationsFail(email) ==
  /\ lastFetch' = [email |-> email, status |-> 500, data |-> <<>>]
  /\ UNCHANGED <<sockVars, brokers, notifications, reqVars, pushes, lastPatch>>

(* ------------------------------ mark read ------------------------------ *)
IdTexts == {IdToString(i) : i \in 1..MaxReqs + 1} \cup {<<"z">>}

(* the cast of the :id parameter to an ObjectId: 0 when it is none *)
CastId(text) ==
  IF \E i \in 1..Len(DigitChar) : IdToString(i) = text
  THEN CHOOSE i \in 1..Len(DigitChar) : IdToString(i) = text
  ELSE 0

(* the update answered without being applied *)
ReadUpdateNone(n) == n

(* the update toggles the flag *)
ReadUpdateToggle(n) == [n EXCEPT !.read = ~n.read]

(* the update replaces the document instead of setting one field *)
ReadUpdateReplace(n) ==
  [n EXCEPT !.read = TRUE, !.message = Empty, !.brokerEmail = Null]

(* the update document { read: true } applied to a stored document *)
ReadUpdate(n) == [n EXCEPT !.read = TRUE]

(* PATCH /api/notifications/:id *)
MarkRead(text) ==
  /\ LET id == CastId(text) IN
     IF id = 0
     THEN /\ lastPatch' = [id |-> text, status |-> 500, details |-> "Cast to ObjectId failed",
                           data |-> <<>>, before |-> FALSE]
          /\ UNCHANGED notifications
     ELSE IF id \notin NotifIds
     THEN /\ lastPatch' = [id |-> text, status |-> 404, details |-> "", data |-> <<>>,
                           before |-> FALSE]
          /\ UNCHANGED notifications
     ELSE /\ notifications' = [i \in 1..Len(notifications) |->
                                 IF notifications[i]._id = id
                                 THEN ReadUpdate(notifications[i])
                                 ELSE notifications[i]]
          /\ lastPatch' = [id |-> text, status |-> 200, details |-> "",
                           data |-> <<NotifObj(ReadUpdate(NotifById(id)))>>,
                           before |-> NotifById(id).read]
  /\ UNCHANGED <<sockVars, brokers, reqVars, pushes, lastFetch>>

(* findByIdAndUpdate rejects: the catch answers 500 *)
MarkReadFail(text) ==
  /\ lastPatch' = [id |-> text, status |-> 500, details |-> "update failed",
                   data |-> <<>>, before |-> FALSE]
  /\ UNCHANGED <<sockVars, brokers, notifications, reqVars, pushes, lastFetch>>

(* --------------------------- specifications --------------------------- *)
(* request bodies: every recipient and delivery time with well-formed other *)
(* fields, and every single defect of one field of a well-formed body       *)
Wellformed == [recipient |-> EmailA, type |-> <<"Manual">>, channel |-> <<"System">>,
               message |-> <<"h", "i">>, dateTime |-> <<DigitChar[1]>>]
Defective ==
  {[Wellformed EXCEPT !.recipient = Empty]}
  \cup {[Wellformed EXCEPT !.type = t] : t \in Types}
  \cup {[Wellformed EXCEPT !.channel = c] : c \in Channels}
  \cup {[Wellformed EXCEPT !.message = m] : m \in Messages}
  \cup {[Wellformed EXCEPT !.dateTime = d] : d \in DateTexts}
Bodies(times) ==
  {[Wellformed EXCEPT !.recipient = rc, !.dateTime = <<DigitChar[t]>>] :
      rc \in Recipients \ {Empty}, t \in times}
  \cup Defective

(* presence, broker store, dispatch and the inbox query: DispatchSockets     *)
(* sockets, DispatchReqs POST requests                                      *)
Next ==
  \/ \E s \in 1..DispatchSockets, e \in Identities \cup {Empty} : Connect(s, e)
  \/ \E s \in 1..DispatchSockets : Disconnect(s)
  \/ \E e \in Identities : BrokerRegister(e)
  \/ \E e \in Identities : BrokerSubscribe(e)
  \/ \E r \in 1..DispatchReqs, b \in Bodies({1}) : PostNotification(r, b)
  \/ \E r \in Reqs : NotifSave(r)
  \/ \E r \in Reqs : NotifSaveFail(r)
  \/ \E r \in Reqs : BrokerFind(r)
  \/ \E r \in Reqs : BrokerFindFail(r)
  \/ \E r \in Reqs : Fanout(r)
  \/ \E r \in Reqs : SendPersonal(r)
  \/ \E e \in Identities : GetNotifications(e)

Spec == Init /\ [][Next]_vars

(* the socket handlers alone: onlineBrokers is written by nothing else *)
NextPresence ==
  \/ \E s \in Sockets, e \in Identities \cup {Empty} : Connect(s, e)
  \/ \E s \in Sockets : Disconnect(s)

SpecPresence == Init /\ [][NextPresence]_vars

(* the notification collection and its readers: MaxReqs POST requests with  *)
(* every delivery time, the inbox query and mark-read; no socket is open,   *)
(* and nothing here reads onlineBrokers or brokers                          *)
NextInbox ==
  \/ \E r \in Reqs, b \in Bodies(1..MaxTime) : PostNotification(r, b)
  \/ \E r \in Reqs : NotifSave(r)
  \/ \E e \in Identities : GetNotifications(e)
  \/ \E e \in Identities : GetNotificationsFail(e)
  \/ \E t \in IdTexts : MarkRead(t)
  \/ \E t \in IdTexts : MarkReadFail(t)

SpecInbox == Init /\ [][NextInbox]_vars

(* every handler together: the actions of Next with the failing inbox      *)
(* query and mark-read, StoreSockets sockets, DispatchReqs POST requests   *)
NextStore ==
  \/ \E s \in 1..StoreSockets, e \in Identities \cup {Empty} : Connect(s, e)
  \/ \E s \in 1..StoreSockets : Disconnect(s)
  \/ \E e \in Identities : BrokerRegister(e)
  \/ \E e \in Identities : BrokerSubscribe(e)
  \/ \E r \in 1..DispatchReqs, b \in Bodies({1}) : PostNotification(r, b)
  \/ \E r \in Reqs : NotifSave(r)
  \/ \E r \in Reqs : NotifSaveFail(r)
  \/ \E r \in Reqs : BrokerFind(r)
  \/ \E r \in Reqs : BrokerFindFail(r)
  \/ \E r \in Reqs : Fanout(r)
  \/ \E r \in Reqs : SendPersonal(r)
  \/ \E e \in Identities : GetNotifications(e)
  \/ \E e \in Identities : GetNotificationsFail(e)
  \/ \E t \in IdTexts : MarkRead(t)
  \/ \E t \in IdTexts : MarkReadFail(t)

SpecStore == Init /\ [][NextStore]_vars

(* ------------------------------ claims --------------------------------- *)
(* the sockets that have connected and supplied identity b *)
SessionsOf(b) == {s \in Sockets : sockState[s] # "new" /\ sockEmail[s] = b}

(* the most recently connected of a non-empty set of sockets *)
Latest(S) == CHOOSE s \in S : \A t \in S : t <= s

(* C1: a disconnect of a stale handle is a no-op on the registry: when      *)
(* socket hA closes while the entry of its identity b holds another handle  *)
(* hB, the entry of b is still hB after the disconnect.                     *)
C1_StaleDisconnectIsNoOp ==
  [][\A hA \in Sockets :
       (/\ sockState[hA] = "open"
        /\ sockState'[hA] = "closed"
        /\ MapGet(onlineBrokers, sockEmail[hA]) # NoSid
        /\ MapGet(onlineBrokers, sockEmail[hA]) # hA)
       => MapGet(onlineBrokers', sockEmail[hA]) = MapGet(onlineBrokers, sockEmail[hA])]_vars

(* C2: whenever the most recently connected socket that supplied identity b *)
(* is still open, the registry holds an entry for b and it is that socket.  *)
C2_LatestOpenSessionIsRegistered ==
  \A b \in Identities :
    (SessionsOf(b) # {} /\ sockState[Latest(SessionsOf(b))] = "open")
      => MapGet(onlineBrokers, b) = Latest(SessionsOf(b))

Stored == {notifications[i] : i \in 1..Len(notifications)}

PushesOf(r) == {p \in pushes : p.req = r}

Range(f) == {f[i] : i \in DOMAIN f}

SubscribedEmails == {brokers[i].email : i \in {j \in 1..Len(brokers) : brokers[j].isSubscribed}}

(* the identities the dispatcher resolves a stored notification to *)
Addressed(n) ==
  IF n.recipient = AllBrokers THEN BrokerEmails
  ELSE IF n.recipient = AllPremiumBrokers THEN SubscribedEmails
  ELSE IF Includes(n.recipient, "@") THEN {n.recipient}
  ELSE {}

(* a request body that passes every validation of the handler and the schema *)
ValidBody(b) == ~MissingFields(b) /\ SchemaValid(NewNotification(b, 1))

(* the inbox answer res holds the notification with this _id *)
Holds(res, id) == \E i \in 1..Len(res) : res[i]._id = id

(* C3: no push is emitted for a notification before its record is          *)
(* persisted, and none for a notification that was never persisted: every  *)
(* emitted push names a stored record, and a request that has not yet      *)
(* passed save() has emitted nothing.                                      *)
C3_PersistBeforePush ==
  /\ \A p \in pushes : p.nid \in NotifIds
  /\ \A r \in Reqs : pc[r] \in {"idle", "save"} => PushesOf(r) = {}

C3_Witness == \E p \in pushes : p.nid \in NotifIds /\ pc[p.req] = "done"

(* C4: every valid submit whose insert the store did not reject has its    *)
(* record persisted whatever the registry held, and every inbox answer for *)
(* a broker it addresses returns the record.                               *)
C4_PersistedWithoutPresence ==
  \A r \in Reqs :
    (/\ pc[r] \in {"saved", "fanout", "done"}
     /\ ValidBody(body[r])
     /\ response[r].details # "save failed")
    => /\ Doc(r)._id \in NotifIds
       /\ \A b \in Addressed(Doc(r)) : \A res \in InboxResults(b) : Holds(res, Doc(r)._id)

(* no socket ever connected, the submit answered 201 and the addressed     *)
(* broker then fetched the record                                          *)
C4_Witness ==
  \E r \in Reqs :
    /\ \A s \in Sockets : sockState[s] = "new"
    /\ onlineBrokers = <<>>
    /\ pc[r] = "done" /\ response[r].status = 201 /\ PushesOf(r) = {}
    /\ lastFetch.status = 200
    /\ lastFetch.email \in Addressed(Doc(r))
    /\ Holds(lastFetch.data, IdToString(Doc(r)._id))

(* C5: the fan-out of an 'All Premium Brokers' broadcast reaches exactly   *)
(* the brokers whose subscription flag was true when the broker store was  *)
(* queried and who have a registry entry when the fan-out runs, each on    *)
(* the handle registered for it.                                           *)
C5_PremiumFanout ==
  [][\A r \in Reqs :
       body[r].recipient = AllPremiumBrokers =>
         /\ (pc[r] = "saved" /\ pc'[r] = "fanout")
              => Range(found'[r]) = SubscribedEmails
         /\ (pc[r] = "fanout" /\ pc'[r] = "done")
              => /\ {p.to : p \in pushes' \ pushes}
                      = {b \in Range(found[r]) : MapGet(onlineBrokers, b) # NoSid}
                 /\ \A p \in pushes' \ pushes :
                      /\ p.req = r /\ p.nid = Doc(r)._id
                      /\ p.sid = MapGet(onlineBrokers, p.to)
                      /\ p.to \in SubscribedEmails]_vars

(* one broker subscribed and online was pushed to, the other, online but   *)
(* not subscribed, was not                                                 *)
C5_Witness ==
  \E r \in Reqs, a, b \in Identities :
    /\ body[r].recipient = AllPremiumBrokers
    /\ pc[r] = "done" /\ response[r].status = 201
    /\ {p.to : p \in PushesOf(r)} = {a}
    /\ b \in BrokerEmails \ SubscribedEmails
    /\ MapGet(onlineBrokers, b) # NoSid
    /\ a \in SubscribedEmails

(* C6 as claimed: the inbox of every subscribed broker holds a stored      *)
(* 'All Premium Brokers' record and the inbox of an unsubscribed broker    *)
(* does not.                                                               *)
C6_InboxFollowsSubscription ==
  \A n \in Stored :
    n.recipient = AllPremiumBrokers =>
      \A b \in BrokerEmails : \A res \in InboxResults(b) :
        Holds(res, n._id) <=> b \in SubscribedEmails

(* C6 amended: the inbox of every identity, subscribed or not, holds every *)
(* stored 'All Premium Brokers' record.                                    *)
C6_InboxShowsPremiumToAll ==
  \A n \in Stored :
    n.recipient = AllPremiumBrokers =>
      \A b \in Identities : \A res \in InboxResults(b) : Holds(res, n._id)

(* a registered, unsubscribed broker fetched a premium broadcast *)
C6_Witness ==
  /\ lastFetch.status = 200
  /\ lastFetch.email \in BrokerEmails \ SubscribedEmails
  /\ \E n \in Stored :
       n.recipient = AllPremiumBrokers /\ Holds(lastFetch.data, IdToString(n._id))

(* C7: every inbox answer for a broker holds every stored notification     *)
(* whose resolved recipient set contains that broker, and every            *)
(* notification that was pushed to it.                                     *)
C7_InboxCoversDeliverable ==
  /\ \A n \in Stored : \A b \in Addressed(n) :
       \A res \in InboxResults(b) : Holds(res, n._id)
  /\ \A p \in pushes : \A res \in InboxResults(p.to) : Holds(res, p.nid)

(* a broker that was online and pushed to at dispatch fetched the record *)
C7_Witness ==
  \E p \in pushes :
    /\ lastFetch.status = 200 /\ lastFetch.email = p.to
    /\ Holds(lastFetch.data, IdToString(p.nid))

(* C8: an inbox answer for b is exactly the stored notifications whose     *)
(* brokerEmail is b or whose recipient is a broadcast sentinel, each once; *)
(* none of them is addressed personally to another identity.               *)
C8_InboxExactly ==
  \A b \in Identities : \A res \in InboxResults(b) :
    LET out == Cleaned(res) IN
      /\ {out[i]._id : i \in 1..Len(out)}
           = {IdToString(n._id) : n \in {m \in Stored :
                 m.brokerEmail = b \/ m.recipient = AllBrokers
                   \/ m.recipient = AllPremiumBrokers}}
      /\ \A i, j \in 1..Len(out) : out[i]._id = out[j]._id => i = j
      /\ \A i \in 1..Len(out) : out[i].brokerEmail \in {b, Null}

(* the store held a record for another identity before the fetched one was *)
(* saved, and the answer leaves it out                                     *)
C8_Witness ==
  /\ lastFetch.status = 200
  /\ Len(notifications) = 2
  /\ notifications[1].brokerEmail \notin {lastFetch.email, Null}
  /\ lastFetch.data = <<NotifObj(notifications[2])>>

(* C9: an inbox answer is sorted by dateTime, latest first: no record is   *)
(* followed by one with a later dateTime.                                  *)
C9_InboxLatestFirst ==
  \A b \in Identities : \A res \in InboxResults(b) :
    LET out == Cleaned(res) IN
      \A i \in 1..Len(out) : i < Len(out) =>
        ParseDate(out[i].dateTime) >= ParseDate(out[i + 1].dateTime)

(* saved in the order t1 then t2 with t1 < t2, fetched as [t2, t1] *)
C9_Witness ==
  /\ lastFetch.status = 200
  /\ Len(notifications) = 2
  /\ notifications[1].dateTime < notifications[2].dateTime
  /\ lastFetch.data = <<NotifObj(notifications[2]), NotifObj(notifications[1])>>

Omits(b) ==
  \E f \in {"recipient", "type", "channel", "message", "dateTime"} : b[f] = Empty

(* request r left no trace in the store or on any connection *)
NoTrace(r) == r \notin NotifIds /\ PushesOf(r) = {}

(* C11: a submit that omits recipient, type, channel, message or dateTime  *)
(* is answered 400 at once, and neither a record nor a push of it exists.  *)
C11_MissingFieldRejected ==
  \A r \in Reqs :
    (pc[r] # "idle" /\ Omits(body[r]))
      => /\ pc[r] = "done"
         /\ response[r].status = 400
         /\ NoTrace(r)

(* the submit without recipient was rejected while a broker was online *)
C11_Witness ==
  \E r \in Reqs :
    /\ pc[r] = "done" /\ body[r].recipient = Empty
    /\ response[r].status = 400 /\ response[r].message = "Missing fields"
    /\ onlineBrokers # <<>>
    /\ notifications = <<>> /\ pushes = {}

(* C12: a submit whose type is not Manual or Automated, or whose channel is *)
(* not System or Email, is answered as a rejected request (400), and       *)
(* neither a record nor a push of it exists.                               *)
C12_EnumViolationRejected ==
  \A r \in Reqs :
    (/\ pc[r] = "done"
     /\ ~Omits(body[r])
     /\ (body[r].type \notin TypeEnum \/ body[r].channel \notin ChannelEnum))
      => /\ response[r].status = 400
         /\ NoTrace(r)

(* C13: a submit whose dateTime is present and names no point in time is   *)
(* answered 400 at once, and neither a record nor a push of it exists.     *)
C13_InvalidDateRejected ==
  \A r \in Reqs :
    (/\ pc[r] # "idle"
     /\ body[r].dateTime # Empty
     /\ ParseDate(body[r].dateTime) = NaN)
      => /\ pc[r] = "done"
         /\ response[r].status = 400
         /\ NoTrace(r)

(* every other field was fine and the addressed broker was online *)
C13_Witness ==
  \E r \in Reqs :
    /\ pc[r] = "done" /\ body[r] = [Wellformed EXCEPT !.dateTime = <<"x">>]
    /\ response[r].status = 400 /\ response[r].message = "Invalid dateTime"
    /\ MapGet(onlineBrokers, body[r].recipient) # NoSid
    /\ notifications = <<>> /\ pushes = {}

(* C14: marking read is idempotent.  A PATCH that the store answers, on an  *)
(* id whose record is already read, succeeds with 200, returns the record  *)
(* with read = true and leaves the collection as it was; and after every   *)
(* successful PATCH the named record is read.                              *)
C14_MarkReadIdempotent ==
  [][\A t \in IdTexts :
       (lastPatch' # lastPatch /\ lastPatch'.id = t /\ CastId(t) \in NotifIds)
       => /\ (NotifById(CastId(t)).read /\ lastPatch'.details # "update failed")
               => /\ lastPatch'.status = 200
                  /\ notifications' = notifications
                  /\ lastPatch'.data = <<NotifObj(NotifById(CastId(t)))>>
          /\ lastPatch'.status = 200
               => /\ (NotifById(CastId(t)).read)'
                  /\ lastPatch'.data[1].read]_vars

(* the latest PATCH found its record already read and answered 200 *)
C14_Witness ==
  /\ lastPatch.status = 200 /\ lastPatch.before
  /\ CastId(lastPatch.id) \in NotifIds
  /\ NotifById(CastId(lastPatch.id)).read
  /\ lastPatch.data = <<NotifObj(NotifById(CastId(lastPatch.id)))>>

(* C15: a PATCH that the store answers, on an id that is the id of no       *)
(* stored notification, is answered 404 and leaves the collection as it    *)
(* was.                                                                    *)
C15_UnknownIdNotFound ==
  [][(/\ lastPatch' # lastPatch
      /\ lastPatch'.details # "update failed"
      /\ \A n \in Stored : IdToString(n._id) # lastPatch'.id)
     => /\ lastPatch'.status = 404
        /\ notifications' = notifications]_vars

(* C16: notification records are append-only with a one-way read flag: in  *)
(* every step of every handler each stored record is still stored with the *)
(* same recipient, type, channel, message, dateTime and brokerEmail, and a  *)
(* record that was read is still read.                                      *)
C16_AppendOnlyOneWayRead ==
  [][\A n \in Stored : \E m \in Stored' :
       /\ m._id = n._id
       /\ m.recipient = n.recipient /\ m.type = n.type /\ m.channel = n.channel
       /\ m.message = n.message /\ m.dateTime = n.dateTime
       /\ m.brokerEmail = n.brokerEmail
       /\ n.read => m.read]_vars

(* a record was marked read, a socket has come and gone since the submit,   *)
(* and the inbox still returns the record as submitted, now read            *)
C16_Witness ==
  \E r \in Reqs :
    /\ pc[r] = "done" /\ response[r].status = 201
    /\ lastPatch.status = 200 /\ lastPatch.id = IdToString(r)
    /\ \E s \in Sockets : sockState[s] = "closed"
    /\ lastFetch.status = 200
    /\ lastFetch.data = <<NotifObj([Doc(r) EXCEPT !.read = TRUE])>>
    /\ Stored = {[Doc(r) EXCEPT !.read = TRUE]}

(* C17: right after the connection handler ran for socket h with a         *)
(* non-empty identity b, looking b up in the registry returns h.           *)
C17_RegisterThenLookup ==
  [][\A h \in Sockets :
       (sockState[h] = "new" /\ sockState'[h] = "open" /\ sockEmail'[h] # Empty)
         => MapGet(onlineBrokers', sockEmail'[h]) = h]_vars

(* the socket that connected last carries an identity and is its entry *)
C17_Witness ==
  \E h \in Sockets :
    /\ sockState[h] = "open" /\ sockEmail[h] # Empty
    /\ \A t \in Sockets : t > h => sockState[t] = "new"
    /\ MapGet(onlineBrokers, sockEmail[h]) = h

(* C18: a reconnect replaces the handle.  When socket h2 connects with an   *)
(* identity b that the registry maps to h1, the entry of b becomes h2 and   *)
(* h1 is the value of no entry; and every push addressed to an identity is  *)
(* sent on the handle of the session of that identity that connected last,  *)
(* never on one that a later connect replaced.                              *)
C18_ReconnectReplaces ==
  [][/\ \A h2 \in Sockets :
          (/\ sockState[h2] = "new" /\ sockState'[h2] = "open"
           /\ MapGet(onlineBrokers, sockEmail'[h2]) # NoSid)
          => /\ MapGet(onlineBrokers', sockEmail'[h2]) = h2
             /\ \A e \in DOMAIN onlineBrokers' :
                  onlineBrokers'[e] # MapGet(onlineBrokers, sockEmail'[h2])
     /\ \A p \in pushes' \ pushes :
          /\ SessionsOf(p.to) # {}
          /\ p.sid = Latest(SessionsOf(p.to))]_vars

(* both sessions of the identity are open and its one push went to the     *)
(* second                                                                  *)
C18_Witness ==
  \E p \in pushes : \E h1, h2 \in Sockets :
    /\ h1 < h2 /\ sockEmail[h1] = p.to /\ sockEmail[h2] = p.to
    /\ sockState[h1] = "open" /\ sockState[h2] = "open"
    /\ p.sid = h2
    /\ \A q \in pushes : q.to = p.to => q.sid = h2

(* C19: delivery is at most once and nothing is queued.  Pushes of a        *)
(* notification are emitted only by the step that ends its own submit; no   *)
(* identity is pushed the same notification twice; and once the submit has  *)
(* ended no step, a later connect included, adds a push of it.              *)
C19_AtMostOnceNoQueue ==
  [][/\ \A p \in pushes' \ pushes :
          /\ pc[p.req] \in {"saved", "fanout"} /\ pc'[p.req] = "done"
          /\ p.nid = Doc(p.req)._id
     /\ \A p, q \in pushes' : (p.nid = q.nid /\ p.to = q.to) => p = q
     /\ \A r \in Reqs : pc[r] = "done" => PushesOf(r)' = PushesOf(r)]_vars

(* the addressed broker had no entry when the submit ran, has one now, and  *)
(* was pushed nothing; the inbox query returned the record to it            *)
C19_Witness ==
  \E r \in Reqs :
    /\ pc[r] = "done" /\ response[r].status = 201
    /\ body[r].recipient \in Identities
    /\ PushesOf(r) = {}
    /\ MapGet(onlineBrokers, body[r].recipient) # NoSid
    /\ lastFetch.status = 200 /\ lastFetch.email = body[r].recipient
    /\ Holds(lastFetch.data, IdToString(Doc(r)._id))

(* C20: the fan-out of an 'All Brokers' broadcast reaches exactly the       *)
(* identities that the broker store held when it was queried, subscribed   *)
(* or not, and that have a registry entry when the fan-out runs, each on   *)
(* the handle registered for it; an identity absent from the broker store  *)
(* is pushed nothing.                                                      *)
C20_AllBrokersFanout ==
  [][\A r \in Reqs :
       body[r].recipient = AllBrokers =>
         /\ (pc[r] = "saved" /\ pc'[r] = "fanout")
              => Range(found'[r]) = BrokerEmails
         /\ (pc[r] = "fanout" /\ pc'[r] = "done")
              => /\ {p.to : p \in pushes' \ pushes}
                      = {b \in Range(found[r]) : MapGet(onlineBrokers, b) # NoSid}
                 /\ \A p \in pushes' \ pushes :
                      /\ p.req = r /\ p.nid = Doc(r)._id
                      /\ p.sid = MapGet(onlineBrokers, p.to)
                      /\ p.to \in BrokerEmails]_vars

(* a registered, unsubscribed, online broker was pushed to; the other      *)
(* identity, online but unknown to the broker store, was not               *)
C20_Witness ==
  \E r \in Reqs, a, b \in Identities :
    /\ body[r].recipient = AllBrokers
    /\ pc[r] = "done" /\ response[r].status = 201
    /\ {p.to : p \in PushesOf(r)} = {a}
    /\ a \in BrokerEmails \ SubscribedEmails
    /\ b \notin BrokerEmails
    /\ MapGet(onlineBrokers, b) # NoSid

(* C21: the dispatch of a notification addressed to a concrete identity b   *)
(* emits one push, on the handle the registry holds for b at that moment,   *)
(* and nothing to any other connection; when the registry has no entry for  *)
(* b it emits nothing.                                                      *)
C21_PersonalPushToRegisteredHandle ==
  [][\A r \in Reqs :
       (/\ pc[r] = "saved" /\ pc'[r] = "done"
        /\ Includes(body[r].recipient, "@"))
       => IF MapGet(onlineBrokers, body[r].recipient) = NoSid
          THEN pushes' = pushes
          ELSE \E p \in pushes' :
                 /\ pushes' \ pushes = {p}
                 /\ p.req = r /\ p.nid = Doc(r)._id
                 /\ p.to = body[r].recipient
                 /\ p.sid = MapGet(onlineBrokers, body[r].recipient)]_vars

(* the addressed broker got its push on its own handle while the other      *)
(* identity, online on another socket, got none                             *)
C21_Witness ==
  \E r \in Reqs, h, g \in Sockets :
    /\ pc[r] = "done" /\ response[r].status = 201
    /\ body[r].recipient \in Identities
    /\ sockState[h] = "open" /\ sockEmail[h] = body[r].recipient
    /\ sockState[g] = "open" /\ sockEmail[g] \in Identities \ {body[r].recipient}
    /\ MapGet(onlineBrokers, sockEmail[g]) = g
    /\ {p.sid : p \in PushesOf(r)} = {h}

(* a step of the POST, GET or PATCH notification handlers *)
DispatcherStep ==
  pc' # pc \/ notifications' # notifications \/ pushes' # pushes
    \/ lastFetch' # lastFetch \/ lastPatch' # lastPatch

(* C22: no step of the notification handlers (submit, inbox query, mark    *)
(* read) changes the broker collection: every broker keeps its e-mail and  *)
(* its subscription flag.                                                  *)
C22_DispatcherLeavesBrokers ==
  [][DispatcherStep => brokers' = brokers]_vars

(* a premium broadcast was resolved and pushed, the inbox was read and the *)
(* record marked read, and the subscribed broker is still subscribed       *)
C22_Witness ==
  \E r \in Reqs :
    /\ body[r].recipient = AllPremiumBrokers
    /\ pc[r] = "done" /\ response[r].status = 201 /\ PushesOf(r) # {}
    /\ lastFetch.status = 200 /\ lastPatch.status = 200
    /\ \A p \in PushesOf(r) : p.to \in SubscribedEmails

(* C23: the presence registry is changed only by connection events and has *)
(* no persistent effect: a step in which a socket connects or disconnects   *)
(* leaves the notification and broker collections as they were, and every   *)
(* step that changes the registry is such a step, so submit, inbox query    *)
(* and mark read leave the registry as it was.                              *)
C23_RegistryFrame ==
  [][/\ sockState' # sockState
          => (notifications' = notifications /\ brokers' = brokers)
     /\ onlineBrokers' # onlineBrokers => sockState' # sockState
     /\ DispatcherStep => onlineBrokers' = onlineBrokers]_vars

(* a record and a broker exist, a socket is open and registered, a submit  *)
(* has pushed on its entry, the inbox was read and the record marked read   *)
C23_Witness ==
  /\ notifications # <<>> /\ brokers # <<>>
  /\ onlineBrokers # <<>>
  /\ \E s \in Sockets : sockState[s] = "open"
  /\ \E p \in pushes : p.sid = MapGet(onlineBrokers, p.to) /\ ~p.delivered
  /\ lastPatch.status = 200 /\ lastFetch.status = 200

(* C24: the personal field of every stored notification is derived from    *)
(* its recipient alone: it is the recipient when the recipient contains    *)
(* '@', and null when the recipient is a broadcast sentinel or another     *)
(* name without '@'.                                                       *)
C24_PersonalFieldDerived ==
  \A n \in Stored :
    /\ (\E i \in 1..Len(n.recipient) : n.recipient[i] = "@")
         => n.brokerEmail = n.recipient
    /\ (\A i \in 1..Len(n.recipient) : n.recipient[i] # "@")
         => n.brokerEmail = Null
    /\ n.brokerEmail # Null
         <=> n.recipient \notin {AllBrokers, AllPremiumBrokers, Team}

(* one stored record is personal, the other is addressed to a name without *)
(* '@', and one of them has been marked read since                         *)
C24_Witness ==
  /\ \E n \in Stored : n.recipient = EmailB /\ n.brokerEmail = EmailB
  /\ \E n \in Stored : n.recipient \in {Team, AllBrokers} /\ n.brokerEmail = Null
  /\ \E n \in Stored : n.read

(* C25: no dangling handle: every entry b -> h of the registry names a     *)
(* socket h that is open and that supplied b as its identity when it       *)
(* connected.                                                              *)
C25_NoDanglingHandles ==
  \A b \in DOMAIN onlineBrokers :
    /\ onlineBrokers[b] \in Sockets
    /\ sockState[onlineBrokers[b]] = "open"
    /\ sockEmail[onlineBrokers[b]] = b

(* an entry is registered after sockets of both identities have closed *)
C25_Witness ==
  /\ onlineBrokers # <<>>
  /\ \A b \in Identities : \E s \in Sockets : sockState[s] = "closed" /\ sockEmail[s] = b

(* the identities the dispatch of request r resolved its recipient to *)
Resolved(r) ==
  IF IsBroadcast(body[r].recipient) THEN Range(found[r])
  ELSE IF \E i \in 1..Len(body[r].recipient) : body[r].recipient[i] = "@"
       THEN {body[r].recipient}
       ELSE {}

(* the identity has a connection that is open *)
Connected(b) == \E s \in Sockets : sockState[s] = "open" /\ sockEmail[s] = b

(* C26: presence is evaluated when the pushes are emitted, not when the     *)
(* record is saved.  In the step that emits the pushes of a submit, a       *)
(* resolved recipient whose latest connection was made after the save       *)
(* resolved and is open is pushed to on that connection, one that was       *)
(* connected when the save resolved and has no open connection now is       *)
(* pushed nothing, and the record is stored either way.                     *)
C26_PresenceAtFanout ==
  [][\A r \in Reqs :
       (pc[r] \in {"saved", "fanout"} /\ pc'[r] = "done" /\ response'[r].status = 201)
       => /\ \A b \in Resolved(r) :
               /\ (/\ SessionsOf(b) # {}
                   /\ socketsAtSave[r][Latest(SessionsOf(b))] = "new"
                   /\ sockState[Latest(SessionsOf(b))] = "open")
                    => \E p \in pushes' \ pushes :
                         p.to = b /\ p.sid = Latest(SessionsOf(b))
               /\ (/\ \E s \in Sockets : socketsAtSave[r][s] = "open" /\ sockEmail[s] = b
                   /\ ~Connected(b))
                    => \A p \in pushes' \ pushes : p.to # b
          /\ Doc(r)._id \in NotifIds']_vars

(* C27: a valid submit whose recipient is neither sentinel and contains no *)
(* '@' is answered 201 and stored with a null personal field, no push of   *)
(* it is emitted, and no inbox answer for any identity returns it.         *)
C27_UnaddressedRecipient ==
  \A r \in Reqs :
    (/\ pc[r] \in {"saved", "done"}
     /\ ValidBody(body[r])
     /\ body[r].recipient \notin {AllBrokers, AllPremiumBrokers}
     /\ \A i \in 1..Len(body[r].recipient) : body[r].recipient[i] # "@"
     /\ response[r].details # "save failed")
    => /\ pc[r] = "done" => response[r].status = 201
       /\ \E n \in Stored : n._id = Doc(r)._id /\ n.brokerEmail = Null
       /\ PushesOf(r) = {}
       /\ \A b \in Identities : \A res \in InboxResults(b) : ~Holds(res, Doc(r)._id)

(* the submit was answered 201 while a registered broker was online, and   *)
(* the inbox of that broker came back without the record                   *)
C27_Witness ==
  \E r \in Reqs :
    /\ pc[r] = "done" /\ response[r].status = 201
    /\ body[r].recipient = Team
    /\ Stored = {Doc(r)}
    /\ lastFetch.status = 200 /\ lastFetch.data = <<>>
    /\ lastFetch.email \in BrokerEmails
    /\ MapGet(onlineBrokers, lastFetch.email) # NoSid

(* the records of the collection that request r created *)
Copies(r) == Cardinality({i \in 1..Len(notifications) : notifications[i]._id = Doc(r)._id})

(* C28: a submit whose save resolved has exactly one record in the         *)
(* collection, whatever number of brokers it is resolved and pushed to; a  *)
(* submit that has not reached the save, or was rejected with 400 or by    *)
(* the save itself, has none; and the collection holds nothing else.       *)
C28_OneRecordPerSubmit ==
  /\ \A r \in Reqs :
       /\ (pc[r] \in {"saved", "fanout"} \/ (pc[r] = "done" /\ response[r].status = 201))
            => Copies(r) = 1
       /\ (\/ pc[r] \in {"idle", "save"}
           \/ (pc[r] = "done" /\ response[r].status = 400)
           \/ (pc[r] = "done" /\ response[r].details
                                   \in {"Notification validation failed", "save failed"}))
            => Copies(r) = 0
  /\ Len(notifications) = Cardinality({r \in Reqs : Copies(r) > 0})

(* a broadcast was pushed to two brokers and stored once *)
C28_Witness ==
  \E r \in Reqs :
    /\ pc[r] = "done" /\ response[r].status = 201
    /\ body[r].recipient = AllBrokers
    /\ Cardinality({p.to : p \in PushesOf(r)}) = 2
    /\ Len(notifications) = 1 /\ Copies(r) = 1

(* C29: the read flag of a broadcast record is shared.  Once a PATCH on a  *)
(* broadcast record has been answered 200, every inbox answer for every    *)
(* identity returns that record with read = true.                          *)
C29_BroadcastReadShared ==
  \A n \in Stored :
    (/\ n.recipient \in {AllBrokers, AllPremiumBrokers}
     /\ lastPatch.status = 200
     /\ lastPatch.id = IdToString(n._id))
    => \A b \in Identities : \A res \in InboxResults(b) :
         \E i \in 1..Len(res) : res[i]._id = n._id /\ res[i].read

(* one PATCH marked a broadcast record that was unread, and an identity    *)
(* fetched it afterwards as read                                           *)
C29_Witness ==
  \E n \in Stored :
    /\ n.recipient = AllBrokers
    /\ lastPatch.status = 200 /\ lastPatch.id = IdToString(n._id) /\ ~lastPatch.before
    /\ lastFetch.status = 200 /\ lastFetch.email = EmailB
    /\ \E i \in 1..Len(lastFetch.data) :
         lastFetch.data[i]._id = IdToString(n._id) /\ lastFetch.data[i].read

=============================================================================
